---- MODULE Spec2Model ----
(***************************************************************************)
(* Model of the config-translator pipeline: Lexer.tokenize, Parser.parse,  *)
(* Evaluator.evaluate_expression / evaluate_node / evaluate_all and        *)
(* Translator.translate.                                                   *)
(*                                                                         *)
(* A source text is a TLA+ string; a character is a string of length 1.    *)
(* Python's None is modelled by NoChar (for characters) and NoneValue (for *)
(* objects).  A float is modelled as a fixed-point integer with            *)
(* FracPrecision decimal digits.  The model describes the program once its *)
(* modules are loaded (annotations are not evaluated at definition time).  *)
(***************************************************************************)
EXTENDS Integers, Sequences, FiniteSets, TLC

VARIABLES input, pc, lexer, parser, statements, evaluator, expr,
          node_index, results, returned, raised, concurrent

vars == <<input, pc, lexer, parser, statements, evaluator, expr,
          node_index, results, returned, raised, concurrent>>

-----------------------------------------------------------------------------
(* Bounds of the model                                                     *)

MaxIntDigits == 2
MaxFracDigits == 1
FracPrecision == 2
MaxSeqLen == 2
MaxStatements == 2

-----------------------------------------------------------------------------
(* Python values                                                           *)

NoChar == "None"
NoneValue == [type |-> "NoneType"]

Digits == {"0", "1", "2", "3", "4", "5", "6", "7", "8", "9"}
Lowers == {"a", "b", "c", "d", "e", "f", "g", "h", "i", "j", "k", "l", "m",
           "n", "o", "p", "q", "r", "s", "t", "u", "v", "w", "x", "y", "z"}
Uppers == {"A", "B", "C", "D", "E", "F", "G", "H", "I", "J", "K", "L", "M",
           "N", "O", "P", "Q", "R", "S", "T", "U", "V", "W", "X", "Y", "Z"}
Whitespace == {" ", "\t", "\r", "\n"}
(* Characters for which str.isdigit holds and which float() rejects.       *)
OtherDigits == {"²"}

isdigit(c) == c \in Digits \cup OtherDigits
islower(c) == c \in Lowers
isupper_never(c) == FALSE
isupper(c) == c \in Uppers
isalnum(c) == c \in Digits \cup OtherDigits \cup Lowers \cup Uppers

CharAt(s, i) == SubSeq(s, i, i)

RECURSIVE Pow10(_)
Pow10(n) == IF n <= 0 THEN 1 ELSE 10 * Pow10(n - 1)

DigitValue(c) ==
    CASE c = "0" -> 0 [] c = "1" -> 1 [] c = "2" -> 2 [] c = "3" -> 3
      [] c = "4" -> 4 [] c = "5" -> 5 [] c = "6" -> 6 [] c = "7" -> 7
      [] c = "8" -> 8 [] c = "9" -> 9

RECURSIVE DigitsValue(_)
DigitsValue(s) ==
    IF Len(s) = 0 THEN 0
    ELSE 10 * DigitsValue(SubSeq(s, 1, Len(s) - 1)) + DigitValue(CharAt(s, Len(s)))

RECURSIVE DotIndex(_, _)
DotIndex(s, i) ==
    IF i > Len(s) THEN 0
    ELSE IF CharAt(s, i) = "." THEN i ELSE DotIndex(s, i + 1)

(* float(num_str) for num_str = digits [ "." digits ], as a fixed-point    *)
(* number of FracPrecision decimal digits.                                 *)
float(num_str) ==
    LET d == DotIndex(num_str, 1)
        whole == IF d = 0 THEN num_str ELSE SubSeq(num_str, 1, d - 1)
        frac == IF d = 0 THEN "" ELSE SubSeq(num_str, d + 1, Len(num_str))
        kept == IF Len(frac) > FracPrecision
                THEN SubSeq(frac, 1, FracPrecision) ELSE frac
    IN DigitsValue(whole) * Pow10(FracPrecision)
         + DigitsValue(kept) * Pow10(FracPrecision - Len(kept))

-----------------------------------------------------------------------------
(* Lexer                                                                   *)

Token(type, value, line, column) ==
    [type |-> type, value |-> value, line |-> line, column |-> column]

LexerError(message, char, line, column) ==
    [type |-> "LexerError", message |-> message, char |-> char,
     line |-> line, column |-> column]

(* float(num_str) of a string with a character float() does not accept.   *)
ValueError(num_str) ==
    [type |-> "ValueError",
     message |-> "could not convert string to float: '" \o num_str \o "'"]

Lexer(t) == [text |-> t, pos |-> 0, line |-> 1, column |-> 1, tokens |-> <<>>]

(* Lexer.error: raises at the lexer's current line and column.             *)
lexer_error(L, message, char) == LexerError(message, char, L.line, L.column)

peek(L, offset) ==
    LET p == L.pos + offset
    IN IF p < Len(L.text) THEN CharAt(L.text, p + 1) ELSE NoChar

advance(L) ==
    IF L.pos >= Len(L.text) THEN L
    ELSE LET char == CharAt(L.text, L.pos + 1)
         IN [L EXCEPT !.pos = @ + 1,
                      !.line = IF char = "\n" THEN @ + 1 ELSE @,
                      !.column = IF char = "\n" THEN 1 ELSE @ + 1]

RECURSIVE skip_whitespace(_)
skip_whitespace(L) ==
    IF peek(L, 0) # NoChar /\ peek(L, 0) \in Whitespace
    THEN skip_whitespace(advance(L)) ELSE L

RECURSIVE skip_to_end_of_line(_)
skip_to_end_of_line(L) ==
    IF peek(L, 0) # NoChar /\ peek(L, 0) # "\n"
    THEN skip_to_end_of_line(advance(L)) ELSE L

skip_single_line_comment_marker_only(L) == advance(advance(L))
skip_single_line_comment(L) == skip_to_end_of_line(advance(advance(L)))

(* The while True loop of skip_multi_line_comment; the result is the lexer *)
(* and the exception raised, if any.                                       *)
RECURSIVE skip_to_comment_end(_)
skip_to_comment_end(L) ==
    LET char == peek(L, 0)
    IN IF char = NoChar
       THEN [lexer |-> L,
             raised |-> lexer_error(L, "unterminated multi-line comment", "")]
       ELSE IF char = "#" /\ peek(L, 1) = ">"
       THEN [lexer |-> advance(advance(L)), raised |-> NoneValue]
       ELSE skip_to_comment_end(advance(L))

skip_multi_line_comment_overlapping(L) == skip_to_comment_end(advance(L))
skip_multi_line_comment(L) == skip_to_comment_end(advance(advance(L)))

RECURSIVE read_digits(_, _)
read_digits(L, num_str) ==
    IF peek(L, 0) # NoChar /\ isdigit(peek(L, 0))
    THEN read_digits(advance(L), num_str \o peek(L, 0))
    ELSE [lexer |-> L, str |-> num_str]

read_number(L) ==
    LET whole == read_digits(L, "")
        full == IF peek(whole.lexer, 0) = "."
                THEN read_digits(advance(whole.lexer), whole.str \o ".")
                ELSE whole
    IN IF \E i \in 1..Len(full.str) : CharAt(full.str, i) \in OtherDigits
       THEN [lexer |-> full.lexer, raised |-> ValueError(full.str),
             token |-> NoneValue]
       ELSE [lexer |-> full.lexer, raised |-> NoneValue,
             token |-> Token("NUMBER", float(full.str), L.line, L.column)]

(* The while loop of read_name: stops at the first character that is not   *)
(* alphanumeric or '_', raises on an uppercase letter.                     *)
RECURSIVE read_name_rest(_, _)
read_name_rest(L, name) ==
    LET char == peek(L, 0)
    IN IF char # NoChar /\ (isalnum(char) \/ char = "_")
       THEN IF isupper(char)
            THEN [lexer |-> L, str |-> name,
                  raised |-> lexer_error(L, "invalid character in name", char)]
            ELSE read_name_rest(advance(L), name \o char)
       ELSE [lexer |-> L, str |-> name, raised |-> NoneValue]

KeywordType(name) == IF name = "sort" THEN "SORT" ELSE "NAME"

read_name(L) ==
    LET r == read_name_rest(advance(L), peek(L, 0))
    IN [lexer |-> r.lexer, raised |-> r.raised,
        token |-> Token(KeywordType(r.str), r.str, L.line, L.column)]

PunctuationType(char) ==
    CASE char = "[" -> "LBRACKET" [] char = "]" -> "RBRACKET"
      [] char = "{" -> "LBRACE"   [] char = "}" -> "RBRACE"
      [] char = "(" -> "LPAREN"   [] char = ")" -> "RPAREN"
      [] char = ";" -> "SEMICOLON" [] char = "=" -> "EQUALS"
      [] char = "." -> "DOT" [] char = "+" -> "PLUS" [] char = "-" -> "MINUS"
      [] OTHER -> "NONE"

(* The if/elif chain of tokenize for operators and delimiters.             *)
read_punctuation(L) ==
    LET char == peek(L, 0)
    IN IF char = "<" /\ peek(L, 1) = "-"
       THEN [lexer |-> advance(advance(L)), raised |-> NoneValue,
             token |-> Token("ASSIGN", "<-", L.line, L.column)]
       ELSE IF PunctuationType(char) # "NONE"
       THEN [lexer |-> advance(L), raised |-> NoneValue,
             token |-> Token(PunctuationType(char), char, L.line, L.column)]
       ELSE [lexer |-> L, token |-> NoneValue,
             raised |-> lexer_error(L, "unexpected character", char)]

IsSingleLineCommentStart(L) == peek(L, 0) = ":" /\ peek(L, 1) = ":"
IsMultiLineCommentStart(L) == peek(L, 0) = "<" /\ peek(L, 1) = "#"

(* One iteration of the while loop of tokenize, after skip_whitespace:     *)
(* kind says which branch ran.                                             *)
tokenize_iteration(L0) ==
    LET L == skip_whitespace(L0)
        char == peek(L, 0)
        append(r) == [lexer |-> IF r.raised = NoneValue
                                THEN [r.lexer EXCEPT !.tokens = Append(@, r.token)]
                                ELSE r.lexer,
                      raised |-> r.raised]
    IN IF L.pos >= Len(L.text)
       THEN [kind |-> "eof", raised |-> NoneValue,
             lexer |-> [L EXCEPT !.tokens =
                           Append(@, Token("EOF", "None", L.line, L.column))]]
       ELSE IF IsSingleLineCommentStart(L)
       THEN [kind |-> "comment", raised |-> NoneValue,
             lexer |-> skip_single_line_comment(L)]
       ELSE IF IsMultiLineCommentStart(L)
       THEN [kind |-> "comment"] @@ skip_multi_line_comment(L)
       ELSE IF isdigit(char)
       THEN [kind |-> "number"] @@ append(read_number(L))
       ELSE IF islower(char)
       THEN [kind |-> "name"] @@ append(read_name(L))
       ELSE [kind |-> "punctuation"] @@ append(read_punctuation(L))

-----------------------------------------------------------------------------
(* Parser                                                                  *)

ParseError(message, token) ==
    [type |-> "ParseError", message |-> message, token |-> token]

(* Reading an attribute of None (self.current_token.type with no current   *)
(* token) raises AttributeError.                                           *)
AttributeError == [type |-> "AttributeError", message |-> "NoneType has no attribute"]

NumberNode(value) == [node |-> "NumberNode", value |-> value]
NameNode(name) == [node |-> "NameNode", name |-> name]
ArrayNode(elements) == [node |-> "ArrayNode", elements |-> elements]
DictNode(pairs) == [node |-> "DictNode", pairs |-> pairs]
ConstDeclarationNode(name, value) ==
    [node |-> "ConstDeclarationNode", name |-> name, value |-> value]
ConstExpressionNode(tokens) == [node |-> "ConstExpressionNode", tokens |-> tokens]

(* A Python dict (insertion-ordered) as a sequence of [key, value]: an     *)
(* assignment to a present key replaces the value in place.                *)
dict_has(d, key) == \E i \in 1..Len(d) : d[i].key = key
dict_get(d, key) == d[CHOOSE i \in 1..Len(d) : d[i].key = key].value
(* An assignment that leaves the value of a present key as it is.          *)
dict_set_keep_first(d, key, value) ==
    IF dict_has(d, key) THEN d ELSE Append(d, [key |-> key, value |-> value])

dict_set(d, key, value) ==
    IF dict_has(d, key)
    THEN [i \in 1..Len(d) |->
             IF d[i].key = key THEN [key |-> key, value |-> value] ELSE d[i]]
    ELSE Append(d, [key |-> key, value |-> value])

(* A parser that reads the token list of the call running beside it.      *)
Parser_shared(tokens) ==
    LET shared == IF concurrent # NoneValue
                       /\ concurrent.pc \in {"parse_text", "evaluate_all"}
                  THEN concurrent.tokens ELSE tokens
    IN [tokens |-> shared, pos |-> 0,
        current_token |-> IF Len(shared) > 0 THEN shared[1] ELSE NoneValue]

Parser(tokens) ==
    [tokens |-> tokens, pos |-> 0,
     current_token |-> IF Len(tokens) > 0 THEN tokens[1] ELSE NoneValue]

(* self.pos += 1 followed by the reload of current_token.                  *)
next_token(P) ==
    [P EXCEPT !.pos = @ + 1,
              !.current_token = IF P.pos + 1 < Len(P.tokens)
                                THEN P.tokens[P.pos + 2] ELSE NoneValue]

Raise(P, exception) == [parser |-> P, raised |-> exception, node |-> NoneValue]
Return(P, node) == [parser |-> P, raised |-> NoneValue, node |-> node]

(* Parser.error                                                            *)
parser_error(P, message) == Raise(P, ParseError(message, P.current_token))

eat(P, token_type) ==
    IF P.current_token = NoneValue THEN Raise(P, AttributeError)
    ELSE IF P.current_token.type = token_type
    THEN Return(next_token(P), P.current_token)
    ELSE parser_error(P, "expected " \o token_type)

(* An exception raised by a call propagates; otherwise the caller goes on  *)
(* with the call's result.                                                 *)
Then(r, Continue(_)) == IF r.raised # NoneValue THEN r ELSE Continue(r)

(* result reads self.current_token.type.                                   *)
ReadingToken(P, result) ==
    IF P.current_token = NoneValue THEN Raise(P, AttributeError) ELSE result

(* A capture that ends at the first ')' whatever the depth.                 *)
RECURSIVE capture_tokens_first_close(_, _, _)
capture_tokens_first_close(P, expr_tokens, paren_count) ==
    IF P.current_token # NoneValue /\ paren_count > 0
    THEN IF P.current_token.type # "RPAREN"
         THEN capture_tokens_first_close(next_token(P),
                                         Append(expr_tokens, P.current_token),
                                         paren_count)
         ELSE Return(eat(P, "RPAREN").parser, expr_tokens)
    ELSE Return(P, expr_tokens)

(* The while loop of parse_const_expression; the result carries the        *)
(* captured tokens in node.                                                *)
RECURSIVE capture_tokens(_, _, _)
capture_tokens(P, expr_tokens, paren_count) ==
    IF P.current_token # NoneValue /\ paren_count > 0
    THEN IF paren_count + (CASE P.current_token.type = "LPAREN" -> 1
                             [] P.current_token.type = "RPAREN" -> -1
                             [] OTHER -> 0) > 0
         THEN capture_tokens(next_token(P), Append(expr_tokens, P.current_token),
                             paren_count + (CASE P.current_token.type = "LPAREN" -> 1
                                              [] P.current_token.type = "RPAREN" -> -1
                                              [] OTHER -> 0))
         ELSE Return(eat(P, "RPAREN").parser, expr_tokens)
    ELSE Return(P, expr_tokens)

expect_closing_dot_unguarded(P, expr_tokens) ==
    Then(eat(P, "DOT"), LAMBDA dot :
    Return(dot.parser, ConstExpressionNode(expr_tokens)))

(* The check that '.' follows the constant expression.                     *)
expect_closing_dot(P, expr_tokens) ==
    IF P.current_token # NoneValue /\ P.current_token.type = "DOT"
    THEN Return(eat(P, "DOT").parser, ConstExpressionNode(expr_tokens))
    ELSE parser_error(P, "expected '.' after constant expression")

parse_const_expression(P) ==
    Then(eat(P, "DOT"), LAMBDA dot :
    Then(eat(dot.parser, "LPAREN"), LAMBDA lparen :
    Then(capture_tokens(lparen.parser, <<>>, 1), LAMBDA captured :
    expect_closing_dot(captured.parser, captured.node))))

RECURSIVE parse_value(_)
RECURSIVE parse_array_elements(_, _)
RECURSIVE parse_dict_pairs(_, _)

(* parse_array after an element: ';' and another element, or the break.    *)
array_after_semicolon(P, elements) ==
    ReadingToken(P,
        IF P.current_token.type = "RBRACKET" THEN Return(P, elements)
        ELSE parse_array_elements(P, elements))

array_after_element(P, elements) ==
    ReadingToken(P,
        IF P.current_token.type = "SEMICOLON"
        THEN array_after_semicolon(eat(P, "SEMICOLON").parser, elements)
        ELSE IF P.current_token.type = "RBRACKET" THEN Return(P, elements)
        ELSE parser_error(P, "expected ';' or ']'"))

(* The while True loop of parse_array, up to its break.                    *)
parse_array_elements(P, elements) ==
    Then(parse_value(P), LAMBDA value :
    array_after_element(value.parser, Append(elements, value.node)))

array_after_bracket(P) ==
    ReadingToken(P,
        IF P.current_token.type = "RBRACKET"
        THEN Return(eat(P, "RBRACKET").parser, ArrayNode(<<>>))
        ELSE Then(parse_array_elements(P, <<>>), LAMBDA elements :
             Then(eat(elements.parser, "RBRACKET"), LAMBDA close :
             Return(close.parser, ArrayNode(elements.node)))))

parse_array(P) ==
    Then(eat(P, "LBRACKET"), LAMBDA open : array_after_bracket(open.parser))

(* parse_dict after a pair: ';' and another pair, or the break.            *)
dict_after_semicolon(P, pairs) ==
    ReadingToken(P,
        IF P.current_token.type = "RBRACE" THEN Return(P, pairs)
        ELSE parse_dict_pairs(P, pairs))

dict_after_pair(P, pairs) ==
    ReadingToken(P,
        IF P.current_token.type = "SEMICOLON"
        THEN dict_after_semicolon(eat(P, "SEMICOLON").parser, pairs)
        ELSE IF P.current_token.type = "RBRACE" THEN Return(P, pairs)
        ELSE parser_error(P, "expected ';' or '}'"))

(* The while True loop of parse_dict, up to its break.                     *)
parse_dict_pairs(P, pairs) ==
    ReadingToken(P,
        IF P.current_token.type # "NAME"
        THEN parser_error(P, "expected key name")
        ELSE Then(eat(P, "NAME"), LAMBDA key :
             Then(eat(key.parser, "EQUALS"), LAMBDA equals :
             Then(parse_value(equals.parser), LAMBDA value :
             dict_after_pair(value.parser,
                             dict_set(pairs, key.node.value, value.node))))))

dict_after_brace(P) ==
    ReadingToken(P,
        IF P.current_token.type = "RBRACE"
        THEN Return(eat(P, "RBRACE").parser, DictNode(<<>>))
        ELSE Then(parse_dict_pairs(P, <<>>), LAMBDA pairs :
             Then(eat(pairs.parser, "RBRACE"), LAMBDA close :
             Return(close.parser, DictNode(pairs.node)))))

parse_dict(P) ==
    Then(eat(P, "LBRACE"), LAMBDA open : dict_after_brace(open.parser))

parse_value(P) ==
    ReadingToken(P,
        IF P.current_token.type = "NUMBER"
        THEN Return(eat(P, "NUMBER").parser, NumberNode(P.current_token.value))
        ELSE IF P.current_token.type = "NAME"
        THEN Return(eat(P, "NAME").parser, NameNode(P.current_token.value))
        ELSE IF P.current_token.type = "LBRACKET" THEN parse_array(P)
        ELSE IF P.current_token.type = "LBRACE" THEN parse_dict(P)
        ELSE IF P.current_token.type = "DOT" THEN parse_const_expression(P)
        ELSE parser_error(P, "unexpected token in value"))

(* A step back that restores the current token and leaves the index.      *)
unconsume_token_only(P, name_token) == [P EXCEPT !.current_token = name_token]

(* The else branch of parse_statement: step back onto the NAME.            *)
unconsume(P, name_token) ==
    [P EXCEPT !.pos = @ - 1, !.current_token = name_token]

(* parse_statement after its eat(NAME).                                    *)
statement_after_name(P, name_token) ==
    ReadingToken(P,
        IF P.current_token.type = "ASSIGN"
        THEN Then(eat(P, "ASSIGN"), LAMBDA assign :
             Then(parse_value(assign.parser), LAMBDA value :
             Return(value.parser,
                    ConstDeclarationNode(name_token.value, value.node))))
        ELSE parse_value(unconsume(P, name_token)))

parse_statement(P) ==
    ReadingToken(P,
        IF P.current_token.type = "NAME"
        THEN statement_after_name(eat(P, "NAME").parser, P.current_token)
        ELSE parse_value(P))

eat_required_semicolon(statement) ==
    Then(eat(statement.parser, "SEMICOLON"), LAMBDA semicolon :
    Return(semicolon.parser, statement.node))

(* The ';' after a statement is eaten when it is there.                    *)
eat_optional_semicolon(statement) ==
    IF /\ statement.parser.current_token # NoneValue
       /\ statement.parser.current_token.type = "SEMICOLON"
    THEN Return(eat(statement.parser, "SEMICOLON").parser, statement.node)
    ELSE statement

(* One iteration of the while loop of Parser.parse.                        *)
parse_iteration(P) == Then(parse_statement(P), LAMBDA statement :
                           eat_optional_semicolon(statement))

parse_continues(P) ==
    P.current_token # NoneValue /\ P.current_token.type # "EOF"

-----------------------------------------------------------------------------
(* Evaluator                                                               *)

EvaluationError(message, token) ==
    [type |-> "EvaluationError", message |-> message, token |-> token]

NameError(name) == [type |-> "NameError", message |-> name]
TypeError == [type |-> "TypeError", message |-> "'<' not supported"]

(* Resolved values: a Python float, list or dict.                          *)
Float(v) == [t |-> "float", v |-> v]
List(v) == [t |-> "list", v |-> v]
Dict(v) == [t |-> "dict", v |-> v]

is_number(a) == a.t = "float"
is_list(a) == a.t = "list"

(* The names bound in the evaluator module: its imports.                   *)
EvaluatorGlobals ==
    {"Any", "Dict", "Token", "TokenType", "ASTNode", "NumberNode", "NameNode",
     "ArrayNode", "DictNode", "ConstExpressionNode", "ParseError"}

Evaluator(constants) == [constants |-> constants, stack |-> <<>>]

(* list.pop() on an empty list.                                            *)
IndexError == [type |-> "IndexError", message |-> "pop from empty list"]

(* len(self.stack) < 2, the test before the operands are popped.           *)
too_few_operands_only_if_none(E) == Len(E.stack) < 1
too_few_operands(E) == Len(E.stack) < 2

push(E, value) == [E EXCEPT !.stack = Append(@, value)]
pop(E) == [E EXCEPT !.stack = SubSeq(@, 1, Len(@) - 1)]
top(E) == E.stack[Len(E.stack)]

(* a < b of Python: "true", "false" or "TypeError".                        *)
RECURSIVE py_less(_, _)
py_less(a, b) ==
    IF is_number(a) /\ is_number(b)
    THEN IF a.v < b.v THEN "true" ELSE "false"
    ELSE IF is_list(a) /\ is_list(b)
    THEN LET n == IF Len(a.v) < Len(b.v) THEN Len(a.v) ELSE Len(b.v)
             differ == {i \in 1..n : a.v[i] # b.v[i]}
         IN IF differ = {}
            THEN IF Len(a.v) < Len(b.v) THEN "true" ELSE "false"
            ELSE LET i == CHOOSE i \in differ : \A j \in differ : i <= j
                 IN py_less(a.v[i], b.v[i])
    ELSE "TypeError"

RECURSIVE insert_sorted(_, _)
insert_sorted(s, x) ==
    IF s = <<>> THEN <<x>>
    ELSE IF py_less(x, s[Len(s)]) = "true"
    THEN Append(insert_sorted(SubSeq(s, 1, Len(s) - 1), x), s[Len(s)])
    ELSE Append(s, x)

RECURSIVE sorted_list(_)
sorted_list(s) ==
    IF s = <<>> THEN <<>>
    ELSE insert_sorted(sorted_list(SubSeq(s, 1, Len(s) - 1)), s[Len(s)])

(* sorted(operand): ascending and stable; exact for lists of numbers, and  *)
(* TypeError when two elements cannot be ordered.                          *)
sorted(operand) ==
    IF \E i, j \in 1..Len(operand) : i < j /\ py_less(operand[j], operand[i]) = "TypeError"
    THEN [raised |-> TypeError, value |-> NoneValue]
    ELSE [raised |-> NoneValue, value |-> List(sorted_list(operand))]

(* type(a) as an f-string formats it.                                      *)
type_name_object(a) == "<class 'object'>"
type_name(a) == "<class '" \o a.t \o "'>"

add(a, b) == Float(a.v + b.v)

concatenate_swapped(a, b) == List(b.v \o a.v)
concatenate(a, b) == List(a.v \o b.v)

subtract_swapped(a, b) == Float(b.v - a.v)
subtract(a, b) == Float(a.v - b.v)

(* The body of the for loop of evaluate_expression for one token.          *)
apply_token(E, token) ==
    LET fail(message) == [evaluator |-> E, raised |-> EvaluationError(message, token)]
        ok(F) == [evaluator |-> F, raised |-> NoneValue]
        b == top(E)
        a == top(pop(E))
        rest == pop(pop(E))
        pop_failed == [evaluator |-> [E EXCEPT !.stack = <<>>], raised |-> IndexError]
    IN IF token.type = "NUMBER" THEN ok(push(E, Float(token.value)))
       ELSE IF token.type = "NAME"
       THEN IF token.value = "sort"
            THEN IF E.stack = <<>> THEN fail("not enough operands for sort()")
                 ELSE IF ~is_list(b)
                 THEN [evaluator |-> pop(E),
                       raised |-> EvaluationError("sort() expects an array", token)]
                 ELSE IF sorted(b.v).raised # NoneValue
                 THEN [evaluator |-> pop(E), raised |-> sorted(b.v).raised]
                 ELSE ok(push(pop(E), sorted(b.v).value))
            ELSE IF ~dict_has(E.constants, token.value)
                 THEN fail("unknown constant: " \o token.value)
                 ELSE ok(push(E, dict_get(E.constants, token.value)))
       ELSE IF token.type = "PLUS"
       THEN IF too_few_operands(E) THEN fail("not enough operands for +")
            ELSE IF Len(E.stack) < 2 THEN pop_failed
            ELSE IF is_number(a) /\ is_number(b) THEN ok(push(rest, add(a, b)))
            ELSE IF is_list(a) /\ is_list(b) THEN ok(push(rest, concatenate(a, b)))
            ELSE [evaluator |-> rest,
                  raised |-> EvaluationError(
                                "incompatible types for +: " \o type_name(a)
                                    \o " and " \o type_name(b), token)]
       ELSE IF token.type = "MINUS"
       THEN IF too_few_operands(E) THEN fail("not enough operands for -")
            ELSE IF Len(E.stack) < 2 THEN pop_failed
            ELSE IF is_number(a) /\ is_number(b) THEN ok(push(rest, subtract(a, b)))
            ELSE [evaluator |-> rest,
                  raised |-> EvaluationError(
                                "incompatible types for -: " \o type_name(a)
                                    \o " and " \o type_name(b), token)]
       ELSE fail("unexpected token in expression: " \o token.type)

(* A check that only asks for a value to return.                           *)
expression_result_if_any(E) ==
    IF Len(E.stack) = 0
    THEN [evaluator |-> E, value |-> NoneValue,
          raised |-> EvaluationError(
                        "malformed expression, 0 values left on the stack", NoneValue)]
    ELSE [evaluator |-> E, value |-> E.stack[1], raised |-> NoneValue]

(* The check after the for loop of evaluate_expression.                    *)
expression_result(E) ==
    IF Len(E.stack) # 1
    THEN [evaluator |-> E, value |-> NoneValue,
          raised |-> EvaluationError(
                        "malformed expression, " \o ToString(Len(E.stack))
                            \o " values left on the stack", NoneValue)]
    ELSE [evaluator |-> E, value |-> E.stack[1], raised |-> NoneValue]

RECURSIVE apply_tokens(_, _, _)
apply_tokens(E, expr_tokens, i) ==
    IF i > Len(expr_tokens) THEN expression_result(E)
    ELSE LET step == apply_token(E, expr_tokens[i])
         IN IF step.raised # NoneValue
            THEN [evaluator |-> step.evaluator, value |-> NoneValue,
                  raised |-> step.raised]
            ELSE apply_tokens(step.evaluator, expr_tokens, i + 1)

evaluate_expression(E, expr_tokens) ==
    apply_tokens([E EXCEPT !.stack = <<>>], expr_tokens, 1)

RECURSIVE evaluate_node(_, _)
RECURSIVE evaluate_elements(_, _, _, _)

(* The comprehensions of evaluate_node over an array's elements or a       *)
(* dict's pairs (items is a sequence of nodes; values collects results).   *)
evaluate_elements(E, items, i, values) ==
    IF i > Len(items)
    THEN [evaluator |-> E, value |-> values, raised |-> NoneValue]
    ELSE LET r == evaluate_node(E, items[i])
         IN IF r.raised # NoneValue THEN r
            ELSE evaluate_elements(r.evaluator, items, i + 1, Append(values, r.value))

evaluate_node(E, node) ==
    IF node.node = "NumberNode"
    THEN [evaluator |-> E, value |-> Float(node.value), raised |-> NoneValue]
    ELSE IF node.node = "NameNode"
    THEN IF ~dict_has(E.constants, node.name)
         THEN [evaluator |-> E, value |-> NoneValue,
               raised |-> EvaluationError("unknown constant: " \o node.name,
                                          NoneValue)]
         ELSE [evaluator |-> E, value |-> dict_get(E.constants, node.name),
               raised |-> NoneValue]
    ELSE IF node.node = "ArrayNode"
    THEN LET r == evaluate_elements(E, node.elements, 1, <<>>)
         IN IF r.raised # NoneValue THEN r
            ELSE [r EXCEPT !.value = List(@)]
    ELSE IF node.node = "DictNode"
    THEN LET r == evaluate_elements(
                      E, [i \in 1..Len(node.pairs) |-> node.pairs[i].value], 1, <<>>)
         IN IF r.raised # NoneValue THEN r
            ELSE [r EXCEPT !.value =
                     Dict([i \in 1..Len(node.pairs) |->
                             [key |-> node.pairs[i].key, value |-> r.value[i]]])]
    ELSE IF node.node = "ConstExpressionNode"
    THEN evaluate_expression(E, node.tokens)
    ELSE [evaluator |-> E, value |-> NoneValue,
          raised |-> EvaluationError("unknown node type", NoneValue)]

(* The body of the for loop of evaluate_all for one node.  The name        *)
(* ConstDeclarationNode is looked up in the module's globals first.        *)
evaluate_all_iteration(E, output, node) ==
    IF "ConstDeclarationNode" \notin EvaluatorGlobals
    THEN [evaluator |-> E, results |-> output,
          raised |-> NameError("ConstDeclarationNode")]
    ELSE IF node.node = "ConstDeclarationNode"
    THEN LET r == evaluate_node(E, node.value)
         IN IF r.raised # NoneValue
            THEN [evaluator |-> r.evaluator, results |-> output, raised |-> r.raised]
            ELSE [evaluator |-> [r.evaluator EXCEPT !.constants =
                                    dict_set(@, node.name, r.value)],
                  results |-> dict_set(output, node.name, r.value),
                  raised |-> NoneValue]
    ELSE LET r == evaluate_node(E, node)
             key == "unnamed_" \o ToString(Len(output))
         IN IF r.raised # NoneValue
            THEN [evaluator |-> r.evaluator, results |-> output, raised |-> r.raised]
            ELSE [evaluator |-> r.evaluator,
                  results |-> dict_set(output, key, r.value),
                  raised |-> NoneValue]

-----------------------------------------------------------------------------
(* Translator                                                              *)

TranslationError(message, cause) ==
    [type |-> "TranslationError", message |-> message, cause |-> cause]

wrap_as_unexpected(exception) == TranslationError("unexpected error", exception)

wrap_known_only(exception) ==
    CASE exception.type = "LexerError" -> TranslationError("lexical error", exception)
      [] exception.type = "ParseError" -> TranslationError("syntax error", exception)
      [] exception.type = "EvaluationError" ->
             TranslationError("evaluation error", exception)
      [] OTHER -> exception

(* The except clauses of Translator.translate.                             *)
wrap(exception) ==
    CASE exception.type = "LexerError" -> TranslationError("lexical error", exception)
      [] exception.type = "ParseError" -> TranslationError("syntax error", exception)
      [] exception.type = "EvaluationError" ->
             TranslationError("evaluation error", exception)
      [] OTHER -> TranslationError("unexpected error", exception)

(* yaml.dump of the results: the document of the external serializer.      *)
yaml_dump(output) == [yaml |-> output]

-----------------------------------------------------------------------------
(* The calls as functions of their arguments                               *)

RECURSIVE tokenize_from(_)
tokenize_from(it) ==
    IF it.raised # NoneValue THEN [tokens |-> NoneValue, raised |-> it.raised]
    ELSE IF it.kind = "eof" THEN [tokens |-> it.lexer.tokens, raised |-> NoneValue]
    ELSE tokenize_from(tokenize_iteration(it.lexer))

tokenize(t) == tokenize_from(tokenize_iteration(Lexer(t)))

RECURSIVE parse_from(_, _)
parse_from(P, nodes) ==
    IF parse_continues(P)
    THEN Then(parse_iteration(P), LAMBDA r : parse_from(r.parser, Append(nodes, r.node)))
    ELSE Return(P, nodes)

parse(tokens) == parse_from(Parser(tokens), <<>>)

parse_text(t) ==
    Then(tokenize(t), LAMBDA lexed : parse(lexed.tokens))

RECURSIVE evaluate_all_from(_, _, _)
evaluate_all_from(r, nodes, i) ==
    IF r.raised # NoneValue \/ i > Len(nodes) THEN r
    ELSE evaluate_all_from(evaluate_all_iteration(r.evaluator, r.results, nodes[i]),
                           nodes, i + 1)

evaluate_all(E, nodes) ==
    evaluate_all_from([evaluator |-> E, results |-> <<>>, raised |-> NoneValue],
                      nodes, 1)

(* The result of Translator.translate: the document returned or the        *)
(* TranslationError raised.                                                *)
translate_evaluate(ast) ==
    IF ast.raised # NoneValue
    THEN [returned |-> NoneValue, raised |-> wrap(ast.raised)]
    ELSE IF evaluate_all(Evaluator(<<>>), ast.node).raised # NoneValue
    THEN [returned |-> NoneValue,
          raised |-> wrap(evaluate_all(Evaluator(<<>>), ast.node).raised)]
    ELSE [returned |-> yaml_dump(evaluate_all(Evaluator(<<>>), ast.node).results),
          raised |-> NoneValue]

translate(t) ==
    IF tokenize(t).raised # NoneValue
    THEN [returned |-> NoneValue, raised |-> wrap(tokenize(t).raised)]
    ELSE translate_evaluate(parse_text(t))

-----------------------------------------------------------------------------
(* The calls a client makes.  input.entry is "translate" for               *)
(* Translator().translate(text), "tokenize" for Lexer(text).tokenize() and *)
(* "evaluate_node" for parse_text(text) followed by                        *)
(* Evaluator(constants).evaluate_node on the first statement.              *)

(* Another call of Translator.translate, running at the same time: its    *)
(* text, its position in translate, its local objects and its outcome;     *)
(* during collects the positions of the first call at which it took steps. *)
ConcurrentCall(text) ==
    [text |-> text, pc |-> "tokenize", tokens |-> NoneValue, ast_nodes |-> NoneValue,
     returned |-> NoneValue, raised |-> NoneValue, during |-> {}]

Start(in) ==
    /\ input = in
    /\ pc = IF in.entry \in {"translate", "tokenize"}
            THEN "tokenize" ELSE "parse_text.tokenize"
    /\ lexer = Lexer(in.text)
    /\ parser = NoneValue
    /\ statements = <<>>
    /\ evaluator = NoneValue
    /\ expr = NoneValue
    /\ node_index = 0
    /\ results = <<>>
    /\ returned = NoneValue
    /\ raised = NoneValue
    /\ concurrent = IF in.family = "isolation"
                    THEN ConcurrentCall(in.concurrent_text) ELSE NoneValue

(* An exception leaves the call: translate wraps it, parse_text and the    *)
(* evaluator let it through.                                               *)
Raised(exception) ==
    /\ raised' = IF input.entry = "translate" THEN wrap(exception) ELSE exception
    /\ pc' = "done"

Tokenizing == pc \in {"tokenize", "parse_text.tokenize"}

(* One iteration of tokenize that ran branch kind.                         *)
TokenizeIteration(kind) ==
    /\ Tokenizing
    /\ LET it == tokenize_iteration(lexer)
       IN /\ it.kind = kind
          /\ lexer' = it.lexer
          /\ IF it.raised # NoneValue
             THEN Raised(it.raised)
             ELSE UNCHANGED <<pc, raised>>
    /\ UNCHANGED <<input, concurrent, parser, statements, evaluator, expr, node_index,
                   results, returned>>

TokenizeComment == TokenizeIteration("comment")
TokenizeNumber == TokenizeIteration("number")
TokenizeName == TokenizeIteration("name")
TokenizePunctuation == TokenizeIteration("punctuation")

(* tokenize leaves its loop, appends EOF and returns; parse_text hands the *)
(* tokens to a new Parser.                                                 *)
TokenizeReturn ==
    /\ Tokenizing
    /\ LET it == tokenize_iteration(lexer)
       IN /\ it.kind = "eof"
          /\ lexer' = it.lexer
          /\ IF input.entry = "tokenize"
             THEN pc' = "done" /\ returned' = it.lexer.tokens /\ UNCHANGED parser
             ELSE IF pc = "tokenize"
             THEN pc' = "parse_text" /\ UNCHANGED <<parser, returned>>
             ELSE pc' = "parse" /\ parser' = Parser(it.lexer.tokens)
                  /\ UNCHANGED returned
    /\ UNCHANGED <<input, concurrent, statements, evaluator, expr, node_index, results, raised>>

(* translate calls parse_text, which builds its own Lexer.                 *)
ParseText ==
    /\ pc = "parse_text"
    /\ lexer' = Lexer(input.text)
    /\ pc' = "parse_text.tokenize"
    /\ UNCHANGED <<input, concurrent, parser, statements, evaluator, expr, node_index,
                   results, returned, raised>>

ParseStatement ==
    /\ pc = "parse"
    /\ parse_continues(parser)
    /\ LET r == parse_iteration(parser)
       IN /\ parser' = r.parser
          /\ IF r.raised # NoneValue
             THEN Raised(r.raised) /\ UNCHANGED statements
             ELSE statements' = Append(statements, r.node) /\ UNCHANGED <<pc, raised>>
    /\ UNCHANGED <<input, concurrent, lexer, evaluator, expr, node_index, results, returned>>

(* parse returns the statements; the caller builds its Evaluator.          *)
ParseReturn ==
    /\ pc = "parse"
    /\ ~parse_continues(parser)
    /\ IF input.entry = "translate"
       THEN /\ evaluator' = Evaluator(<<>>)
            /\ node_index' = 1
            /\ pc' = "evaluate_all"
       ELSE /\ evaluator' = Evaluator(input.constants)
            /\ UNCHANGED node_index
            /\ pc' = "evaluate_node"
    /\ UNCHANGED <<input, concurrent, lexer, parser, statements, expr, results, returned,
                   raised>>

EvaluateAllIteration ==
    /\ pc = "evaluate_all"
    /\ node_index <= Len(statements)
    /\ LET r == evaluate_all_iteration(evaluator, results, statements[node_index])
       IN /\ evaluator' = r.evaluator
          /\ results' = r.results
          /\ IF r.raised # NoneValue
             THEN Raised(r.raised) /\ UNCHANGED node_index
             ELSE node_index' = node_index + 1 /\ UNCHANGED <<pc, raised>>
    /\ UNCHANGED <<input, concurrent, lexer, parser, statements, expr, returned>>

(* evaluate_all returns the results and translate returns their YAML.      *)
EvaluateAllReturn ==
    /\ pc = "evaluate_all"
    /\ node_index > Len(statements)
    /\ returned' = yaml_dump(results)
    /\ pc' = "done"
    /\ UNCHANGED <<input, concurrent, lexer, parser, statements, evaluator, expr, node_index,
                   results, raised>>

(* evaluate_node on the first statement: a constant expression enters      *)
(* evaluate_expression, any other node is reduced at once.                 *)
EvaluateNode ==
    /\ pc = "evaluate_node"
    /\ IF statements = <<>>
       THEN pc' = "done" /\ UNCHANGED <<evaluator, expr, returned, raised>>
       ELSE IF statements[1].node = "ConstExpressionNode"
       THEN /\ evaluator' = [evaluator EXCEPT !.stack = <<>>]
            /\ expr' = [tokens |-> statements[1].tokens, index |-> 1]
            /\ pc' = "evaluate_expression"
            /\ UNCHANGED <<returned, raised>>
       ELSE LET r == evaluate_node(evaluator, statements[1])
            IN /\ evaluator' = r.evaluator
               /\ UNCHANGED expr
               /\ IF r.raised # NoneValue
                  THEN Raised(r.raised) /\ UNCHANGED returned
                  ELSE returned' = r.value /\ pc' = "done" /\ UNCHANGED raised
    /\ UNCHANGED <<input, concurrent, lexer, parser, statements, node_index, results>>

EvaluateToken ==
    /\ pc = "evaluate_expression"
    /\ expr.index <= Len(expr.tokens)
    /\ LET r == apply_token(evaluator, expr.tokens[expr.index])
       IN /\ evaluator' = r.evaluator
          /\ IF r.raised # NoneValue
             THEN Raised(r.raised) /\ UNCHANGED expr
             ELSE expr' = [expr EXCEPT !.index = @ + 1] /\ UNCHANGED <<pc, raised>>
    /\ UNCHANGED <<input, concurrent, lexer, parser, statements, node_index, results, returned>>

EvaluateExpressionReturn ==
    /\ pc = "evaluate_expression"
    /\ expr.index > Len(expr.tokens)
    /\ LET r == expression_result(evaluator)
       IN IF r.raised # NoneValue
          THEN Raised(r.raised) /\ UNCHANGED returned
          ELSE returned' = r.value /\ pc' = "done" /\ UNCHANGED raised
    /\ UNCHANGED <<input, concurrent, lexer, parser, statements, evaluator, expr, node_index,
                   results>>

(* A step of the other call: lexer.tokenize(), parse_text(text), or        *)
(* Evaluator().evaluate_all(ast_nodes) with yaml.dump.                     *)
ConcurrentTranslateStep ==
    /\ concurrent # NoneValue
    /\ concurrent.pc # "done"
    /\ LET fail(exception) == [concurrent EXCEPT !.pc = "done",
                                                 !.raised = wrap(exception),
                                                 !.during = @ \cup {pc}]
           lexed == tokenize(concurrent.text)
           parsed == parse_text(concurrent.text)
           evaluated == evaluate_all(Evaluator(<<>>), concurrent.ast_nodes)
       IN concurrent' =
            CASE concurrent.pc = "tokenize" ->
                   IF lexed.raised # NoneValue THEN fail(lexed.raised)
                   ELSE [concurrent EXCEPT !.pc = "parse_text",
                                           !.tokens = lexed.tokens,
                                           !.during = @ \cup {pc}]
              [] concurrent.pc = "parse_text" ->
                   IF parsed.raised # NoneValue THEN fail(parsed.raised)
                   ELSE [concurrent EXCEPT !.pc = "evaluate_all",
                                           !.ast_nodes = parsed.node,
                                           !.during = @ \cup {pc}]
              [] concurrent.pc = "evaluate_all" ->
                   IF evaluated.raised # NoneValue THEN fail(evaluated.raised)
                   ELSE [concurrent EXCEPT !.pc = "done",
                                           !.returned = yaml_dump(evaluated.results),
                                           !.during = @ \cup {pc}]
    /\ UNCHANGED <<input, pc, lexer, parser, statements, evaluator, expr,
                   node_index, results, returned, raised>>

Next ==
    \/ ConcurrentTranslateStep
    \/ TokenizeComment
    \/ TokenizeNumber
    \/ TokenizeName
    \/ TokenizePunctuation
    \/ TokenizeReturn
    \/ ParseText
    \/ ParseStatement
    \/ ParseReturn
    \/ EvaluateAllIteration
    \/ EvaluateAllReturn
    \/ EvaluateNode
    \/ EvaluateToken
    \/ EvaluateExpressionReturn

-----------------------------------------------------------------------------
(* The inputs                                                              *)

LiteralDigits == {"0", "1", "7"}

RECURSIVE DigitStrings(_)
DigitStrings(n) ==
    IF n = 0 THEN {""}
    ELSE {d \o s : d \in LiteralDigits, s \in DigitStrings(n - 1)}

(* digits+ [ "." digits* ]                                                 *)
NumericLiterals ==
    {whole \o frac :
        whole \in UNION {DigitStrings(n) : n \in 1..MaxIntDigits},
        frac \in {""} \cup {"." \o s : s \in UNION {DigitStrings(n) : n \in 0..MaxFracDigits}}}

InitNumericLiteral ==
    \E N \in NumericLiterals :
        Start([family |-> "numeric_literal", entry |-> "translate",
               text |-> "x <- " \o N \o ";", literal |-> N])

(* .(a b +).  .(a b -).  .(a b + c -).                                     *)
OperandLiterals == {"0", "1", "7.1", "10."}

ArithmeticText(form, a, b, c) ==
    CASE form = "plus" -> ".(" \o a \o " " \o b \o " +)."
      [] form = "minus" -> ".(" \o a \o " " \o b \o " -)."
      [] form = "plus_minus" -> ".(" \o a \o " " \o b \o " + " \o c \o " -)."

InitArithmetic ==
    \E form \in {"plus", "minus", "plus_minus"}, a, b, c \in OperandLiterals :
        /\ form # "plus_minus" => c = a
        /\ Start([family |-> "arithmetic", entry |-> "evaluate_node",
                  text |-> ArithmeticText(form, a, b, c), constants |-> <<>>,
                  form |-> form, a |-> a, b |-> b, c |-> c])

(* .(a b +). with a and b bound to sequences                               *)
SequenceElements == {Float(float("1")), Float(float("2.5")), List(<<Float(float("7"))>>)}

Sequences(n) == UNION {[1..k -> SequenceElements] : k \in 0..n}

InitConcatenation ==
    \E A, B \in Sequences(MaxSeqLen) :
        Start([family |-> "concatenation", entry |-> "evaluate_node",
               text |-> ".(a b +).",
               constants |-> <<[key |-> "a", value |-> List(A)],
                               [key |-> "b", value |-> List(B)]>>,
               A |-> A, B |-> B])

(* seq <- [ ... ]; r <- .(seq sort()).;                                    *)
SortLiterals == {"3", "1", "2.5"}

RECURSIVE Join(_, _)
Join(strings, separator) ==
    IF Len(strings) = 0 THEN ""
    ELSE IF Len(strings) = 1 THEN strings[1]
    ELSE strings[1] \o separator \o Join(Tail(strings), separator)

InitSort ==
    \E seq \in UNION {[1..k -> SortLiterals] : k \in 0..MaxSeqLen} :
        \/ Start([family |-> "sort", entry |-> "translate",
                  text |-> "seq <- [" \o Join(seq, "; ")
                             \o "]; r <- .(seq sort()).;",
                  seq |-> seq])
        \/ Start([family |-> "sort", entry |-> "evaluate_node",
                  text |-> ".(seq sort()).",
                  constants |-> <<[key |-> "seq",
                                   value |-> List([i \in 1..Len(seq) |->
                                                      Float(float(seq[i]))])]>>,
                  seq |-> seq])

(* a <- first; [a <- second;] b <- <a reference to a>;                      *)
ReferenceForms == {"a", "[a; 0]", "{k = a}", ".(a 0 +)."}

InitReference ==
    \E first, second \in {"1", "2"}, redeclared \in BOOLEAN, form \in ReferenceForms :
        Start([family |-> "reference", entry |-> "translate",
               text |-> "a <- " \o first \o "; "
                          \o (IF redeclared THEN "a <- " \o second \o "; " ELSE "")
                          \o "b <- " \o form \o ";",
               first |-> first, second |-> second, redeclared |-> redeclared,
               form |-> form])

(* A text with a comment inserted at a position.                           *)
CommentBases ==
    {"", "x <- 1;", "[1; 2]", "a :: c\n b", "a <# c #> b", ".(1 2 +).", " :: c\n"}

Comments == {"<# c #>", "<##>", "<# a\nb #>", ":: c\n", "::\n"}

InsertAt(t, position, comment) ==
    SubSeq(t, 1, position) \o comment \o SubSeq(t, position + 1, Len(t))

InitComment ==
    \E base \in CommentBases, comment \in Comments :
        \E position \in 0..Len(base) :
            Start([family |-> "comment", entry |-> "translate",
                   text |-> InsertAt(base, position, comment),
                   base |-> base, position |-> position, comment |-> comment])

(* Statements, each with or without its ';'.                               *)
StatementTexts ==
    {"x <- 5.0", "x <- 1.0", "y", "[1; 2]", "z <- {k = 1}", ".(1 2 +)."}

StatementNode(statement) ==
    CASE statement \in {"x <- 5.0", "x <- 1.0", "z <- {k = 1}"} -> "ConstDeclarationNode"
      [] statement = "y" -> "NameNode"
      [] statement = "[1; 2]" -> "ArrayNode"
      [] statement = ".(1 2 +)." -> "ConstExpressionNode"

InitStatements ==
    \E k \in 1..MaxStatements :
        \E stmts \in [1..k -> StatementTexts], semicolon \in [1..k -> BOOLEAN] :
            Start([family |-> "statements", entry |-> "translate",
                   text |-> Join([i \in 1..k |->
                                     stmts[i] \o (IF semicolon[i] THEN ";" ELSE "")],
                                 " "),
                   stmts |-> stmts, semicolon |-> semicolon])

(* Token sequences that do not match the grammar, each with the kind of    *)
(* the token at which the mismatch shows ("NoneType": the input ended).    *)
MalformedTexts ==
    {<<"[1; 2", "EOF">>, <<"[1; 2;", "EOF">>, <<"[1 2]", "NUMBER">>,
     <<"[", "EOF">>, <<"{k = 1", "EOF">>, <<"{k = 1; j", "EOF">>,
     <<"{1 = 2}", "NUMBER">>, <<"{k 1}", "NUMBER">>, <<"{k = }", "RBRACE">>,
     <<"{k = 1 j = 2}", "NAME">>, <<".(1 2 +", "NoneType">>,
     <<".(1 (2) +", "NoneType">>, <<".(1 2 +)", "EOF">>, <<".(1 2 +) 3", "NUMBER">>,
     <<".1", "NUMBER">>, <<".", "EOF">>, <<"x <- ;", "SEMICOLON">>,
     <<"x <- 1; ]", "RBRACKET">>, <<";", "SEMICOLON">>, <<"x <- <-", "ASSIGN">>,
     <<"x <- [1; =]", "EQUALS">>, <<"y x <- (", "LPAREN">>}

InitMalformed ==
    \E m \in MalformedTexts, e \in {"translate", "evaluate_node"} :
        Start([family |-> "malformed", entry |-> e, text |-> m[1],
               constants |-> <<>>, offending |-> m[2]])

(* An identifier with an uppercase letter.                                 *)
InitUppercase ==
    \E before \in {"", "x <- ", "y;\n  "}, prefix \in {"", "a", "ab", "a_1"},
       upper \in {"X", "A"}, suffix \in {"", "b;"} :
        Start([family |-> "uppercase", entry |-> "translate",
               text |-> before \o prefix \o upper \o suffix,
               before |-> before, prefix |-> prefix, upper |-> upper])

(* A block comment: text, "<#", a body without "#>", then either "#>" and  *)
(* more text or the end of the input.                                      *)
BlockCommentBodies == {"", " c ", "<# ", " <# <#", "#", ">", "a\nb", "# >", "x <- 1;"}

InitBlockComment ==
    \E before \in {"", "x ", "1"}, body \in BlockCommentBodies,
       closed \in BOOLEAN, after \in {"", " y", "#>", " b #>", "<-2"} :
        /\ ~closed => after = ""
        /\ Start([family |-> "block_comment", entry |-> "translate",
                  text |-> before \o "<#" \o body
                             \o (IF closed THEN "#>" \o after ELSE ""),
                  before |-> before, body |-> body, closed |-> closed,
                  after |-> after])

(* An environment with a number, two sequences and a mapping.              *)
Environment ==
    <<[key |-> "num", value |-> Float(float("42.0"))],
      [key |-> "seq", value |-> List(<<Float(float("7")), Float(float("1"))>>)],
      [key |-> "empty", value |-> List(<<>>)],
      [key |-> "map", value |-> Dict(<<[key |-> "k", value |-> Float(float("1"))]>>)]>>

(* sort applied to an operand that is not a sequence.                      *)
InitSortNonArray ==
    \/ \E literal \in {"42.0", "0", "{k = 1}"} :
          Start([family |-> "sort_non_array", entry |-> "translate",
                 text |-> "num <- " \o literal \o "; r <- .(num sort()).;"])
    \/ \E operand \in {"num", "map", "1", "1 2 +"} :
          Start([family |-> "sort_non_array", entry |-> "evaluate_node",
                 text |-> ".(" \o operand \o " sort()).",
                 constants |-> Environment])

(* A reference to the name u, which is not bound where it is referenced.   *)
InitUnknownConstant ==
    \/ \E text \in {"u", "x <- u;", ".(u 1.0 +).;", "x <- u; u <- 1;",
                     "num <- 1; [num; u]", "{k = u}"} :
          Start([family |-> "unknown_constant", entry |-> "translate",
                 text |-> text, name |-> "u"])
    \/ \E text \in {"u", ".(u 1.0 +).", "[num; u]", "{k = u}", ".(num u +)."} :
          Start([family |-> "unknown_constant", entry |-> "evaluate_node",
                 text |-> text, name |-> "u", constants |-> Environment])

(* prefix a b op: PLUS or MINUS applied to two operands of the             *)
(* environment (or the literal 1), above what prefix left on the stack.    *)
InitOperandKinds ==
    \E prefix \in {"", "7 "}, a, b \in {"num", "seq", "empty", "map", "1"},
       op \in {"+", "-"} :
        Start([family |-> "operand_kinds", entry |-> "evaluate_node",
               text |-> ".(" \o prefix \o a \o " " \o b \o " " \o op \o ").",
               constants |-> Environment,
               prefix |-> prefix, a |-> a, b |-> b, op |-> op])

(* Programs with statements that are not declarations, each with the      *)
(* output expected of it, or with the name it references in vain.          *)
UnnamedPrograms ==
    {[text |-> "5", unbound |-> "",
      output |-> <<[key |-> "unnamed_0", value |-> Float(float("5"))]>>],
     [text |-> "x <- 1; 5", unbound |-> "",
      output |-> <<[key |-> "x", value |-> Float(float("1"))],
                   [key |-> "unnamed_1", value |-> Float(float("5"))]>>],
     [text |-> "5; [1; 2]", unbound |-> "",
      output |-> <<[key |-> "unnamed_0", value |-> Float(float("5"))],
                   [key |-> "unnamed_1",
                    value |-> List(<<Float(float("1")), Float(float("2"))>>)]>>],
     [text |-> "5; unnamed_0", unbound |-> "unnamed_0", output |-> <<>>],
     [text |-> "5; x <- .(unnamed_0 1 +).;", unbound |-> "unnamed_0", output |-> <<>>]}

InitUnnamed ==
    \E program \in UnnamedPrograms :
        Start([family |-> "unnamed", entry |-> "translate", text |-> program.text,
               unbound |-> program.unbound, output |-> program.output])

(* Texts for Lexer(text).tokenize(): empty, blank, comments only, tokens   *)
(* of every kind, characters the language does not have.                   *)
LexerTexts ==
    {"", " ", " \t\r\n", ":: c", ":: c\n", "<# c #>", " <##> :: c\n\n", "<# c",
     "x <- 1;", "[1; 2.5]", "{k = v_1}", ".(a b + sort() -).", "10.", "1.5.2",
     "x\ny", "-<", "X", "a#", ":", "<", "1²", "²", "x <- .5²", "x²"}

InitLexerText ==
    \E text \in LexerTexts, entry \in {"tokenize", "translate"} :
        Start([family |-> "lexer_text", entry |-> entry, text |-> text])

(* Two calls of translate at the same time: the texts, each with the class *)
(* of the exception its translation ends with on its own ("NoneType":      *)
(* it returns).                                                            *)
IsolationPrograms ==
    {<<"", "NoneType">>, <<" :: c\n", "NoneType">>, <<"a <- 1;", "NameError">>,
     <<"b <- a;", "NameError">>, <<"X", "LexerError">>, <<"x <- ;", "ParseError">>}

InitIsolation ==
    \E first, second \in IsolationPrograms :
        Start([family |-> "isolation", entry |-> "translate", text |-> first[1],
               expected |-> first[2], concurrent_text |-> second[1],
               concurrent_expected |-> second[2]])

(* Expressions whose operators find fewer than two operands.               *)
UnderflowExpressions ==
    {"+", "-", "1 +", "1 -", "seq +", "1 2 + -", "1 2 - +", "1 2 + 3 - -",
     "num 1 + + 2", "- 1 2"}

InitUnderflow ==
    \E expression \in UnderflowExpressions :
        Start([family |-> "underflow", entry |-> "evaluate_node",
               text |-> ".(" \o expression \o ").", constants |-> Environment])

(* Expressions, each with the number of values it leaves on the stack and  *)
(* the first of them.                                                      *)
RemainderExpressions ==
    {<<"", 0, NoneValue>>, <<"1", 1, Float(float("1"))>>,
     <<"1 2 +", 1, Float(float("3"))>>, <<"seq", 1, dict_get(Environment, "seq")>>,
     <<"1 2", 2, NoneValue>>, <<"1 2 3", 3, NoneValue>>, <<"1 2 + 3", 2, NoneValue>>,
     <<"num seq", 2, NoneValue>>, <<"7 1 - 2 num map", 4, NoneValue>>}

InitRemainder ==
    \E e \in RemainderExpressions :
        Start([family |-> "remainder", entry |-> "evaluate_node",
               text |-> ".(" \o e[1] \o ").", constants |-> Environment,
               remaining |-> e[2], value |-> e[3]])

(* Constant expressions with nested, missing and surplus parentheses, with *)
(* and without the closing '.', at the top level and inside values.        *)
ConstExpressionTexts ==
    {".(arr sort()).", ".().", ".(1 2 +).", ".((1)).", ".(1 (2 (3)) ()).",
     ".(1 2 +)", ".(1 2 +) .", ".(1 2 +) 3 .", ".(1 (2).", ".(1)).", ".(1).)",
     ".(1). .(2 (3)).", ".(1).; 2", "x <- .(a (b) c). y", "[.(1 (2)).; .(3).]",
     "{k = .(()).}", ".(.(1).).", ".(1 . 2).", ". (1).", ".1", ".(", "."}

InitConstExpression ==
    \E text \in ConstExpressionTexts :
        Start([family |-> "const_expression", entry |-> "evaluate_node",
               text |-> text, constants |-> Environment])

(* Statements that begin with a name: declarations, bare names, a name     *)
(* before every kind of token.                                             *)
NameStatementTexts ==
    {"x", "x;", "x <- 1", "x <- y", "x <- y;", "x y", "x y <- 1", "x; y <- 1",
     "x <- y z", "x x x", "x 1", "x [1]", "x {k = v}", "x .(1).", "x <-", "x <- ;",
     "x =", "x - 1", "x <- <- 1", "x sort", "x )", "[x; y <- 1]", "{k = x y}"}

InitNameStatement ==
    \E text \in NameStatementTexts :
        Start([family |-> "name_statement", entry |-> "evaluate_node",
               text |-> text, constants |-> Environment])

(* Dict literals, most of them repeating a key: the text, the keys of the  *)
(* node in order, the text of the value each key is to end with, and the   *)
(* mapping the node evaluates to.                                          *)
One == Float(float("1"))
Two == Float(float("2"))
Three == Float(float("3"))
Pair(key, value) == [key |-> key, value |-> value]
DuplicateKeyDicts ==
    {[text |-> "{k = 1; k = 2}", keys |-> <<"k">>, last |-> <<"2">>,
      value |-> Dict(<<Pair("k", Two)>>)],
     [text |-> "{k = 1; k = 2; k = 3;}", keys |-> <<"k">>, last |-> <<"3">>,
      value |-> Dict(<<Pair("k", Three)>>)],
     [text |-> "{k = 2; k = 2}", keys |-> <<"k">>, last |-> <<"2">>,
      value |-> Dict(<<Pair("k", Two)>>)],
     [text |-> "{a = 1; b = 2; a = 3}", keys |-> <<"a", "b">>, last |-> <<"3", "2">>,
      value |-> Dict(<<Pair("a", Three), Pair("b", Two)>>)],
     [text |-> "{a = 1; b = 2; b = 3; a = 2}", keys |-> <<"a", "b">>,
      last |-> <<"2", "3">>,
      value |-> Dict(<<Pair("a", Two), Pair("b", Three)>>)],
     [text |-> "{a = 1; b = 2}", keys |-> <<"a", "b">>, last |-> <<"1", "2">>,
      value |-> Dict(<<Pair("a", One), Pair("b", Two)>>)],
     [text |-> "{k = [1]; k = {k = 1; k = 2}}", keys |-> <<"k">>,
      last |-> <<"{k = 2}">>,
      value |-> Dict(<<Pair("k", Dict(<<Pair("k", Two)>>))>>)],
     [text |-> "{k = missing; k = num}", keys |-> <<"k">>, last |-> <<"num">>,
      value |-> Dict(<<Pair("k", dict_get(Environment, "num"))>>)],
     [text |-> "{k = .(1 2).; k = 1}", keys |-> <<"k">>, last |-> <<"1">>,
      value |-> Dict(<<Pair("k", One)>>)],
     [text |-> "{k = .(1 2 +).; k = [2; 1]}", keys |-> <<"k">>, last |-> <<"[2; 1]">>,
      value |-> Dict(<<Pair("k", List(<<Two, One>>))>>)]}

InitDuplicateKey ==
    \E d \in DuplicateKeyDicts :
        Start([family |-> "duplicate_key", entry |-> "evaluate_node", text |-> d.text,
               constants |-> Environment, keys |-> d.keys, last |-> d.last,
               value |-> d.value])

(* Programs with bare values, declarations of names of the form            *)
(* unnamed_<k> and redeclarations: the text, the number of bare            *)
(* statements and the number of distinct declared names.                   *)
UnnamedKeyPrograms ==
    {[text |-> "5", bare |-> 1, declared |-> 0],
     [text |-> "5; 6", bare |-> 2, declared |-> 0],
     [text |-> "x <- 1; 5", bare |-> 1, declared |-> 1],
     [text |-> "5; x <- 1; 6", bare |-> 2, declared |-> 1],
     [text |-> "x <- 1; x <- 2; 5", bare |-> 1, declared |-> 1],
     [text |-> "x <- 1; 5; x <- 2; 6", bare |-> 2, declared |-> 1],
     [text |-> "unnamed_0 <- 1; 5", bare |-> 1, declared |-> 1],
     [text |-> "unnamed_1 <- 1; 5", bare |-> 1, declared |-> 1],
     [text |-> "5; unnamed_0 <- 1", bare |-> 1, declared |-> 1],
     [text |-> "5; unnamed_0 <- 1; 6", bare |-> 2, declared |-> 1],
     [text |-> "5; unnamed_1 <- 1; 6", bare |-> 2, declared |-> 1]}

InitUnnamedKey ==
    \E program \in UnnamedKeyPrograms :
        Start([family |-> "unnamed_key", entry |-> "translate", text |-> program.text,
               bare |-> program.bare, declared |-> program.declared])

Init ==
    \/ InitBlockComment
    \/ InitUnnamedKey
    \/ InitDuplicateKey
    \/ InitNameStatement
    \/ InitConstExpression
    \/ InitRemainder
    \/ InitUnderflow
    \/ InitIsolation
    \/ InitLexerText
    \/ InitUnnamed
    \/ InitOperandKinds
    \/ InitUnknownConstant
    \/ InitSortNonArray
    \/ InitNumericLiteral
    \/ InitArithmetic
    \/ InitConcatenation
    \/ InitSort
    \/ InitReference
    \/ InitComment
    \/ InitStatements
    \/ InitMalformed
    \/ InitUppercase

Spec == Init /\ [][Next]_vars

-----------------------------------------------------------------------------
(* Properties                                                              *)

Done == pc = "done"

(* The exception a call raised, without translate's wrapper.               *)
Cause == IF raised # NoneValue /\ raised.type = "TranslationError"
         THEN raised.cause ELSE raised

(* The value the returned document holds for key, NoneValue without it.    *)
Output(key) ==
    IF returned # NoneValue /\ dict_has(returned.yaml, key)
    THEN dict_get(returned.yaml, key) ELSE NoneValue

(* C1: for every valid numeric literal N, translating `x <- N;` returns    *)
(* the output with exactly one entry, x mapped to the value of N.          *)
C1_NumericLiteralOutput ==
    (input.family = "numeric_literal" /\ Done) =>
        /\ raised = NoneValue
        /\ returned = yaml_dump(<<[key |-> "x", value |-> Float(float(input.literal))]>>)

(* C2: .(a b +). evaluates to a+b, .(a b -). to a-b (never b-a) and        *)
(* .(a b + c -). to (a+b)-c.                                               *)
ArithmeticValue(in) ==
    CASE in.form = "plus" -> float(in.a) + float(in.b)
      [] in.form = "minus" -> float(in.a) - float(in.b)
      [] in.form = "plus_minus" -> (float(in.a) + float(in.b)) - float(in.c)

C2_Arithmetic ==
    (input.family = "arithmetic" /\ Done) =>
        /\ raised = NoneValue
        /\ returned = Float(ArithmeticValue(input))

C2_Witness ==
    /\ input.family = "arithmetic" /\ Done
    /\ input.form = "minus" /\ float(input.a) < float(input.b)
    /\ returned = Float(float(input.a) - float(input.b))

(* C3: translating `seq <- [...]; r <- .(seq sort()).;` succeeds and binds *)
(* r to the elements of seq in ascending order, duplicates kept.           *)
Count(s, x) == Cardinality({i \in 1..Len(s) : s[i] = x})

IsAscendingPermutation(r, s) ==
    /\ Len(r) = Len(s)
    /\ \A i \in 1..Len(s) : Count(r, s[i]) = Count(s, s[i])
    /\ \A i \in 1..(Len(r) - 1) : r[i] <= r[i + 1]

C3_SortAscending ==
    (input.family = "sort" /\ input.entry = "translate" /\ Done) =>
        /\ raised = NoneValue
        /\ Output("r") # NoneValue
        /\ Output("r").t = "list"
        /\ \A i \in 1..Len(Output("r").v) : Output("r").v[i].t = "float"
        /\ IsAscendingPermutation(
               [i \in 1..Len(Output("r").v) |-> Output("r").v[i].v],
               [i \in 1..Len(input.seq) |-> float(input.seq[i])])

(* C4: for sequences A and B bound in the environment, .(A B +). is A's    *)
(* elements in order followed by B's, of length len(A)+len(B).             *)
C4_Concatenation ==
    (input.family = "concatenation" /\ Done) =>
        /\ raised = NoneValue
        /\ returned.t = "list"
        /\ Len(returned.v) = Len(input.A) + Len(input.B)
        /\ \A i \in 1..Len(input.A) : returned.v[i] = input.A[i]
        /\ \A i \in 1..Len(input.B) : returned.v[Len(input.A) + i] = input.B[i]

C4_Witness ==
    /\ input.family = "concatenation" /\ Done
    /\ Len(input.A) = MaxSeqLen /\ Len(input.B) > 0 /\ input.A # input.B
    /\ returned = List(input.A \o input.B)

(* C5: in evaluate_all a reference to a declared name resolves to the      *)
(* value of the most recent declaration before it.                         *)
ReferencedValue(in) ==
    Float(float(IF in.redeclared THEN in.second ELSE in.first))

ReferenceValue(in) ==
    CASE in.form = "a" -> ReferencedValue(in)
      [] in.form = "[a; 0]" -> List(<<ReferencedValue(in), Float(0)>>)
      [] in.form = "{k = a}" -> Dict(<<[key |-> "k", value |-> ReferencedValue(in)]>>)
      [] in.form = ".(a 0 +)." -> ReferencedValue(in)

C5_MostRecentDeclaration ==
    (input.family = "reference" /\ Done) =>
        /\ raised = NoneValue
        /\ Output("a") = ReferencedValue(input)
        /\ Output("b") = ReferenceValue(input)

(* Where the tokens and comments of a text lie: for each, the position    *)
(* before its first character and the position after its last one.         *)
RECURSIVE spans_from(_, _)
spans_from(L, spans) ==
    IF tokenize_iteration(L).raised # NoneValue \/ tokenize_iteration(L).kind = "eof"
    THEN spans
    ELSE spans_from(tokenize_iteration(L).lexer,
                    Append(spans, [kind |-> tokenize_iteration(L).kind,
                                   start |-> skip_whitespace(L).pos,
                                   end |-> tokenize_iteration(L).lexer.pos]))

Spans(t) == spans_from(Lexer(t), <<>>)

InsideToken(t, position) ==
    \E i \in 1..Len(Spans(t)) :
        /\ Spans(t)[i].kind # "comment"
        /\ Spans(t)[i].start < position /\ position < Spans(t)[i].end

(* A single-line comment runs up to the newline that ends it.              *)
InsideComment(t, position) ==
    \E i \in 1..Len(Spans(t)) :
        /\ Spans(t)[i].kind = "comment"
        /\ Spans(t)[i].start < position
        /\ \/ position < Spans(t)[i].end
           \/ position = Spans(t)[i].end /\ CharAt(t, Spans(t)[i].start + 1) = ":"

(* Between the two characters of a comment's opening or closing marker.    *)
InsideCommentMarker(t, position) ==
    \E i \in 1..Len(Spans(t)) :
        /\ Spans(t)[i].kind = "comment"
        /\ \/ position = Spans(t)[i].start + 1
           \/ position = Spans(t)[i].end - 1 /\ CharAt(t, Spans(t)[i].start + 1) = "<"

SameTokens(s, t) ==
    /\ Len(s) = Len(t)
    /\ \A i \in 1..Len(s) : s[i].type = t[i].type /\ s[i].value = t[i].value

(* The tokens and the output of the text with the comment are those of the *)
(* text without it.                                                        *)
CommentLeavesUnchanged ==
    /\ pc = "parse_text" => SameTokens(lexer.tokens, tokenize(input.base).tokens)
    /\ Done => Cause.type # "LexerError"
    /\ (Done /\ translate(input.base).raised = NoneValue) =>
           /\ raised = NoneValue
           /\ returned = translate(input.base).returned

(* C6 as stated: for a text that translates successfully, a comment        *)
(* inserted at any position between two tokens (anywhere outside a token   *)
(* and outside a comment marker) leaves the token kinds and values, and    *)
(* the output, unchanged.                                                  *)
C6_CommentInvariance_AnyPosition ==
    ( /\ input.family = "comment"
      /\ translate(input.base).raised = NoneValue
      /\ ~InsideToken(input.base, input.position)
      /\ ~InsideCommentMarker(input.base, input.position) ) => CommentLeavesUnchanged

(* C6: for a text that tokenizes, a block comment or a single-line comment *)
(* ended by a newline, inserted at a position between two tokens that is   *)
(* not inside an existing comment, leaves the sequence of token kinds and  *)
(* values unchanged, and the output of a successful translation with it.   *)
C6_CommentInvariance ==
    ( /\ input.family = "comment"
      /\ tokenize(input.base).raised = NoneValue
      /\ ~InsideToken(input.base, input.position)
      /\ ~InsideComment(input.base, input.position) ) => CommentLeavesUnchanged

C6_Witness ==
    /\ input.family = "comment" /\ pc = "parse_text"
    /\ input.base = "x <- 1;" /\ input.position = 4 /\ input.comment = ":: c\n"
    /\ Len(lexer.tokens) = 5
    /\ SameTokens(lexer.tokens, tokenize("x <- 1;").tokens)

(* C7: at top level the ';' after a statement is optional: parse accepts a *)
(* statement followed by the end-marker or by the next statement, eats a   *)
(* ';' that is there and returns one node per statement.                   *)
C7_OptionalSemicolon ==
    (input.family = "statements") =>
        /\ Cause.type \notin {"ParseError", "LexerError", "AttributeError"}
        /\ pc = "evaluate_all" =>
              /\ Len(statements) = Len(input.stmts)
              /\ \A i \in 1..Len(statements) :
                    statements[i].node = StatementNode(input.stmts[i])
              /\ parser.current_token.type = "EOF"
              /\ parser.pos = Len(parser.tokens) - 1
              /\ input.text = "x <- 5.0" =>
                    statements = <<ConstDeclarationNode("x", NumberNode(float("5.0")))>>

C7_Witness ==
    /\ input.family = "statements" /\ pc = "evaluate_all"
    /\ input.text = "x <- 5.0 [1; 2]"
    /\ Len(statements) = 2

C9_ParseErrorOnly ==
    /\ Cause.type # "AttributeError"
    /\ (input.family = "malformed") =>
          /\ pc \notin {"evaluate_all", "evaluate_node", "evaluate_expression"}
          /\ returned = NoneValue
          /\ Done =>
                /\ Cause.type = "ParseError"
                /\ Cause.token.type = input.offending
                /\ Cause.token = parser.current_token
                /\ (Cause.token = NoneValue) = (parser.pos >= Len(parser.tokens))

C9_Witness ==
    /\ input.family = "malformed" /\ Done /\ input.entry = "evaluate_node"
    /\ input.text = ".(1 2 +"
    /\ raised.type = "ParseError" /\ raised.token = NoneValue

(* Line and column of the uppercase letter of the text.                    *)
RECURSIVE CountNewlines(_)
CountNewlines(t) ==
    IF Len(t) = 0 THEN 0
    ELSE (IF CharAt(t, 1) = "\n" THEN 1 ELSE 0) + CountNewlines(SubSeq(t, 2, Len(t)))

RECURSIVE LengthOfLastLine(_)
LengthOfLastLine(t) ==
    IF Len(t) = 0 \/ CharAt(t, Len(t)) = "\n" THEN 0
    ELSE 1 + LengthOfLastLine(SubSeq(t, 1, Len(t) - 1))

UppercaseAt(message) ==
    /\ raised.type = "TranslationError"
    /\ Cause.type = "LexerError"
    /\ Cause.message = message
    /\ Cause.char = input.upper
    /\ Cause.line = 1 + CountNewlines(input.before \o input.prefix)
    /\ Cause.column = 1 + LengthOfLastLine(input.before \o input.prefix)

(* C10 as stated: an uppercase letter anywhere in an identifier, its first *)
(* character included, fails with the 'invalid character in name' error    *)
(* at the line and column of that letter.                                  *)
C10_UppercaseInvalidAnywhere ==
    (input.family = "uppercase" /\ Done) => UppercaseAt("invalid character in name")

(* C10: an uppercase letter after the first character of an identifier     *)
(* fails with the 'invalid character in name' error, and one where an      *)
(* identifier would start with the 'unexpected character' error, both      *)
(* naming the letter at its line and column.                               *)
C10_UppercaseRejected ==
    (input.family = "uppercase") =>
        /\ pc \in {"tokenize", "done"}
        /\ Done => UppercaseAt(IF input.prefix = "" THEN "unexpected character"
                               ELSE "invalid character in name")

C10_Witness ==
    /\ input.family = "uppercase" /\ Done
    /\ input.before = "y;\n  " /\ input.prefix = "a_1"
    /\ Cause.message = "invalid character in name"
    /\ Cause.line = 2 /\ Cause.column = 6

(* C11: a block comment ends at the first "#>" after its opener and all   *)
(* that lies between, a further "<#" included, gives no token: the tokens  *)
(* are those of the text with the comment replaced by a blank.  Without a  *)
(* closing "#>" tokenize raises the unterminated comment LexerError and    *)
(* returns nothing.                                                        *)
C11_BlockComment ==
    (input.family = "block_comment") =>
        LET blank == tokenize(input.before \o " " \o input.after)
        IN IF input.closed
           THEN /\ pc = "parse_text" =>
                      /\ blank.raised = NoneValue
                      /\ SameTokens(lexer.tokens, blank.tokens)
                /\ blank.raised # NoneValue => pc \in {"tokenize", "done"}
                /\ (Done /\ Cause.type = "LexerError") =>
                      /\ blank.raised # NoneValue
                      /\ Cause.message = blank.raised.message
                      /\ Cause.char = blank.raised.char
           ELSE /\ pc \in {"tokenize", "done"}
                /\ returned = NoneValue
                /\ Done =>
                      /\ Cause.type = "LexerError"
                      /\ Cause.message = "unterminated multi-line comment"
                      /\ SameTokens(lexer.tokens \o <<Token("EOF", "None", 0, 0)>>,
                                    tokenize(input.before).tokens)

C11_Witness ==
    /\ input.family = "block_comment" /\ pc = "parse_text"
    /\ input.text = "x <# <# <##> y"
    /\ Len(lexer.tokens) = 3

C11_WitnessUnterminated ==
    /\ input.family = "block_comment" /\ Done
    /\ input.text = "x <#>"
    /\ Cause.message = "unterminated multi-line comment"

(* C12: sort applied to an operand that is not a sequence fails with the   *)
(* evaluation error saying that sort expects a sequence, and nothing is    *)
(* returned.                                                               *)
C12_SortExpectsSequence ==
    (input.family = "sort_non_array" /\ Done) =>
        /\ returned = NoneValue
        /\ Cause.type = "EvaluationError"
        /\ Cause.message = "sort() expects an array"

(* C13: a reference to a name with no binding where it is referenced (one *)
(* never declared, or declared only by a later statement), as a bare value *)
(* or as an operand of a constant expression, fails with the unknown       *)
(* constant evaluation error naming the identifier.                        *)
C13_UnknownConstant ==
    (input.family = "unknown_constant" /\ Done) =>
        /\ returned = NoneValue
        /\ Cause.type = "EvaluationError"
        /\ Cause.message = "unknown constant: " \o input.name

(* C13 with the environment given to the evaluator: Evaluator.evaluate_node *)
(* on a node that references a name the environment does not bind.         *)
C13_UnknownConstantInEvaluator ==
    (input.family = "unknown_constant" /\ input.entry = "evaluate_node" /\ Done) =>
        /\ returned = NoneValue
        /\ Cause.type = "EvaluationError"
        /\ Cause.message = "unknown constant: " \o input.name

(* The kind of an operand of the operand_kinds inputs.                     *)
OperandKind(operand) ==
    IF operand = "1" THEN "float" ELSE dict_get(Environment, operand).t

(* C14: PLUS succeeds only on two numbers or two sequences and MINUS only  *)
(* on two numbers; every other pair of operand kinds fails with the        *)
(* evaluation error that names both kinds, and nothing is pushed.          *)
C14_OperandKinds ==
    (input.family = "operand_kinds" /\ Done) =>
        LET ka == OperandKind(input.a)
            kb == OperandKind(input.b)
            accepted == /\ ka = kb
                        /\ \/ ka = "float"
                           \/ ka = "list" /\ input.op = "+"
        IN IF accepted
           THEN /\ input.prefix = "" => raised = NoneValue /\ returned.t = ka
                /\ input.prefix # "" =>
                      /\ evaluator.stack[2].t = ka
                      /\ raised.message = "malformed expression, 2 values left on the stack"
           ELSE /\ returned = NoneValue
                /\ raised.type = "EvaluationError"
                /\ raised.message = "incompatible types for " \o input.op \o ": <class '"
                                        \o ka \o "'> and <class '" \o kb \o "'>"
                /\ raised.token.type = (IF input.op = "+" THEN "PLUS" ELSE "MINUS")
                /\ evaluator.stack = (IF input.prefix = "" THEN <<>>
                                      ELSE <<Float(float("7"))>>)

C14_Witness ==
    /\ input.family = "operand_kinds" /\ Done
    /\ input.text = ".(7 seq map -)."
    /\ raised.message = "incompatible types for -: <class 'list'> and <class 'dict'>"
    /\ Len(evaluator.stack) = 1

(* C15: a top-level statement that is not a declaration is stored in the   *)
(* output under the key unnamed_<n>, n the number of entries already in    *)
(* the output, and is not bound in the environment: a later reference to   *)
(* that key fails as a reference to an unknown constant.                   *)
C15_UnnamedStatements ==
    (input.family = "unnamed" /\ Done) =>
        IF input.unbound = ""
        THEN raised = NoneValue /\ returned = yaml_dump(input.output)
        ELSE /\ returned = NoneValue
             /\ Cause.type = "EvaluationError"
             /\ Cause.message = "unknown constant: " \o input.unbound

(* Tokens in source order: each starts after the one before it.           *)
InSourceOrder(tokens) ==
    \A i \in 1..(Len(tokens) - 1) :
        \/ tokens[i].line < tokens[i + 1].line
        \/ tokens[i].line = tokens[i + 1].line /\ tokens[i].column < tokens[i + 1].column
        \/ tokens[i + 1].type = "EOF" /\ tokens[i].line = tokens[i + 1].line
               /\ tokens[i].column <= tokens[i + 1].column

(* C17: Lexer.tokenize ends either by raising LexerError or by returning   *)
(* the tokens in source order, the last one EOF and no other one EOF; a    *)
(* text of blanks and comments only gives the single EOF token.            *)
C17_TokenizeOutcome ==
    (input.family = "lexer_text" /\ input.entry = "tokenize" /\ Done) =>
        IF raised # NoneValue
        THEN raised.type = "LexerError" /\ returned = NoneValue
        ELSE /\ Len(returned) >= 1
             /\ returned[Len(returned)].type = "EOF"
             /\ \A i \in 1..(Len(returned) - 1) : returned[i].type # "EOF"
             /\ InSourceOrder(returned)
             /\ (\A i \in 1..Len(Spans(input.text)) :
                    Spans(input.text)[i].kind = "comment") => Len(returned) = 1

(* C17, termination: every iteration of tokenize's loop consumes at least  *)
(* one character of the text, and the position never passes its end.       *)
C17_TokenizeProgress ==
    [][(Tokenizing /\ Tokenizing') =>
          (lexer.pos < lexer'.pos /\ lexer'.pos <= Len(lexer'.text))]_vars

(* The stage label of the TranslationError for a cause of the given type.  *)
StageLabel(type) ==
    CASE type = "LexerError" -> "lexical error"
      [] type = "ParseError" -> "syntax error"
      [] type = "EvaluationError" -> "evaluation error"
      [] OTHER -> "unexpected error"

(* The exception raised inside translate for a text, NoneValue if none.    *)
OriginalException(t) ==
    IF tokenize(t).raised # NoneValue THEN tokenize(t).raised
    ELSE IF parse_text(t).raised # NoneValue THEN parse_text(t).raised
    ELSE evaluate_all(Evaluator(<<>>), parse_text(t).node).raised

SampleExceptions ==
    {LexerError("unexpected character", "#", 1, 1),
     ParseError("unexpected token in value", NoneValue),
     EvaluationError("unknown constant: u", NoneValue),
     EvaluationError("not enough operands for +", Token("PLUS", "+", 1, 3)),
     NameError("ConstDeclarationNode"), ValueError("1²"), TypeError, AttributeError}

(* C16: translate raises nothing but TranslationError: a LexerError is     *)
(* wrapped with the lexical label, a ParseError with the syntactic one, an *)
(* EvaluationError with the evaluation one, anything else with the         *)
(* 'unexpected' one, and the cause is the exception that was raised.       *)
C16_OnlyTranslationError ==
    /\ \A e \in SampleExceptions : wrap(e) = TranslationError(StageLabel(e.type), e)
    /\ (input.entry = "translate" /\ raised # NoneValue) =>
          /\ Done /\ returned = NoneValue
          /\ raised.type = "TranslationError"
          /\ raised.message = StageLabel(raised.cause.type)
          /\ raised.cause = OriginalException(input.text)
    /\ (input.entry = "translate" /\ Done /\ raised = NoneValue) =>
          /\ OriginalException(input.text) = NoneValue
          /\ returned # NoneValue

C16_Witness ==
    /\ input.entry = "translate" /\ Done
    /\ input.text = "x <- .5²"
    /\ raised = TranslationError("unexpected error", ValueError("5²"))

AtOperatorWithoutOperands ==
    /\ pc = "evaluate_expression"
    /\ expr.index <= Len(expr.tokens)
    /\ expr.tokens[expr.index].type \in {"PLUS", "MINUS"}
    /\ Len(evaluator.stack) < 2

(* C19: PLUS or MINUS with fewer than two operands on the stack fails with *)
(* the 'not enough operands' evaluation error before anything is popped,   *)
(* and no pop is ever attempted on an empty stack.                         *)
C19_StackUnderflow ==
    /\ [](Cause.type # "IndexError")
    /\ [](input.family = "underflow" /\ Done =>
            /\ returned = NoneValue
            /\ raised.type = "EvaluationError"
            /\ raised.message \in {"not enough operands for +",
                                    "not enough operands for -"})
    /\ [][AtOperatorWithoutOperands =>
            /\ raised'.type = "EvaluationError"
            /\ raised'.token = expr.tokens[expr.index]
            /\ raised'.message = "not enough operands for "
                                     \o expr.tokens[expr.index].value
            /\ evaluator'.stack = evaluator.stack]_vars

C19_Witness ==
    /\ input.family = "underflow" /\ Done
    /\ input.text = ".(1 2 + 3 - -)."
    /\ raised.message = "not enough operands for -"
    /\ Len(evaluator.stack) = 1

(* C20: evaluate_expression returns a value only when exactly one value    *)
(* is left on the stack after the last token; with none left, as in .()., *)
(* or with two or more it fails with the malformed expression error that   *)
(* reports how many are left.                                              *)
C20_ExactlyOneValue ==
    /\ (input.family = "remainder" /\ Done) =>
          /\ Len(evaluator.stack) = input.remaining
          /\ IF input.remaining = 1
             THEN raised = NoneValue /\ returned = input.value
             ELSE /\ returned = NoneValue
                  /\ raised = EvaluationError(
                                  "malformed expression, " \o ToString(input.remaining)
                                      \o " values left on the stack", NoneValue)
    /\ (Done /\ raised = NoneValue /\ expr # NoneValue) =>
          /\ Len(evaluator.stack) = 1
          /\ returned = evaluator.stack[1]

C20_Witness ==
    /\ input.family = "remainder" /\ Done
    /\ input.text = ".()."
    /\ raised.message = "malformed expression, 0 values left on the stack"

(* The depth counted from the '(' at index open up to index j, and the     *)
(* first index at which it returns to zero.                                *)
ParenDepth(tokens, open, j) ==
    1 + Cardinality({k \in (open + 1)..j : tokens[k].type = "LPAREN"})
      - Cardinality({k \in (open + 1)..j : tokens[k].type = "RPAREN"})

HasMatchingParen(tokens, open) ==
    \E j \in (open + 1)..Len(tokens) : ParenDepth(tokens, open, j) = 0

MatchingParen(tokens, open) ==
    CHOOSE j \in (open + 1)..Len(tokens) :
        /\ ParenDepth(tokens, open, j) = 0
        /\ \A k \in (open + 1)..(j - 1) : ParenDepth(tokens, open, k) > 0

(* The parser standing on the token at index i.                            *)
ParserAt(P, i) == [P EXCEPT !.pos = i - 1, !.current_token = P.tokens[i]]

(* C21: parse_const_expression, entered on a '.' followed by '(', captures *)
(* exactly the tokens strictly between that '(' and its matching ')',      *)
(* found by counting parenthesis depth: inner parentheses are captured,    *)
(* the matched outer ones are not.  It succeeds only if a '.' follows the  *)
(* matching ')' immediately, and then the cursor stands on the token after *)
(* that '.'; otherwise it raises ParseError.                               *)
C21_ConstExpressionCapture ==
    pc = "parse" =>
      \A i \in 1..(Len(parser.tokens) - 1) :
        (parser.tokens[i].type = "DOT" /\ parser.tokens[i + 1].type = "LPAREN") =>
          LET tokens == parser.tokens
              open == i + 1
              r == parse_const_expression(ParserAt(parser, i))
          IN IF /\ HasMatchingParen(tokens, open)
                /\ MatchingParen(tokens, open) < Len(tokens)
                /\ tokens[MatchingParen(tokens, open) + 1].type = "DOT"
             THEN /\ r.raised = NoneValue
                  /\ r.node = ConstExpressionNode(
                                  SubSeq(tokens, open + 1,
                                         MatchingParen(tokens, open) - 1))
                  /\ r.parser.pos = MatchingParen(tokens, open) + 1
                  /\ r.parser.current_token = tokens[MatchingParen(tokens, open) + 2]
                  /\ r.parser.tokens = tokens
             ELSE /\ r.raised # NoneValue
                  /\ r.raised.type = "ParseError"

C21_Witness ==
    /\ input.family = "const_expression" /\ input.text = ".(arr sort())."
    /\ pc = "evaluate_node"
    /\ Len(statements) = 1
    /\ statements[1].node = "ConstExpressionNode"
    /\ [k \in 1..Len(statements[1].tokens) |-> statements[1].tokens[k].type]
          = <<"NAME", "SORT", "LPAREN", "RPAREN">>
    /\ parser.pos = 8
    /\ parser.current_token.type = "EOF"

(* A nested constant expression: the inner '.(' ... ').' is captured       *)
(* whole by the outer one.                                                 *)
C21_WitnessNested ==
    /\ input.family = "const_expression" /\ input.text = ".(.(1).)."
    /\ pc = "evaluate_node"
    /\ [k \in 1..Len(statements[1].tokens) |-> statements[1].tokens[k].type]
          = <<"DOT", "LPAREN", "NUMBER", "RPAREN", "DOT">>

(* What parse_statement does when P stands on a NAME.                      *)
NameStatementAt(P) ==
    LET name_token == P.current_token
        after_name == eat(P, "NAME").parser
        r == parse_statement(P)
    IN IF after_name.current_token.type = "ASSIGN"
       THEN LET value == parse_value(eat(after_name, "ASSIGN").parser)
            IN IF value.raised # NoneValue
               THEN r.raised = value.raised
               ELSE /\ r.raised = NoneValue
                    /\ r.node = ConstDeclarationNode(name_token.value, value.node)
                    /\ r.parser = value.parser
       ELSE /\ unconsume(after_name, name_token) = P
            /\ unconsume(after_name, name_token).current_token
                 = P.tokens[unconsume(after_name, name_token).pos + 1]
            /\ r.raised = NoneValue
            /\ r.node = NameNode(name_token.value)
            /\ r.parser.pos = P.pos + 1
            /\ r.parser.current_token = P.tokens[P.pos + 2]
            /\ r.parser.tokens = P.tokens

(* C22: parse_statement on a leading NAME yields a ConstDeclaration of     *)
(* that name when the next token is '<-'.  Otherwise it steps back onto    *)
(* the NAME, the cursor index and the current token being as they were     *)
(* before the NAME was read, and parses it as a bare NameNode: the cursor  *)
(* ends on the token right after the NAME, none skipped, none read twice.  *)
C22_NameStatement ==
    /\ [](pc = "parse" =>
            \A i \in 1..(Len(parser.tokens) - 1) :
                parser.tokens[i].type = "NAME" =>
                    NameStatementAt(ParserAt(parser, i)))
    /\ [][(/\ pc = "parse"
           /\ parser' # parser
           /\ parser.current_token.type = "NAME"
           /\ parser.tokens[parser.pos + 2].type # "ASSIGN")
          => /\ statements' = Append(statements, NameNode(parser.current_token.value))
             /\ parser'.pos = parser.pos + 1
                              + (IF parser.tokens[parser.pos + 2].type = "SEMICOLON"
                                 THEN 1 ELSE 0)
             /\ parser'.current_token = parser.tokens[parser'.pos + 1]]_vars

C22_Witness ==
    /\ input.family = "name_statement" /\ input.text = "x y <- 1"
    /\ pc = "parse"
    /\ statements = <<NameNode("x")>>
    /\ parser.pos = 1
    /\ parser.current_token.type = "NAME" /\ parser.current_token.value = "y"

C22_WitnessDeclaration ==
    /\ input.family = "name_statement" /\ input.text = "x y <- 1"
    /\ Len(statements) = 2
    /\ statements[2].node = "ConstDeclarationNode" /\ statements[2].name = "y"

(* The keys of a dict node or of a mapping, in order.                      *)
Keys(pairs) == [i \in 1..Len(pairs) |-> pairs[i].key]

EachKeyOnce(pairs) ==
    \A i, j \in 1..Len(pairs) : pairs[i].key = pairs[j].key => i = j

(* The node a value's text parses to.                                      *)
ValueNode(text) == parse_value(Parser(tokenize(text).tokens)).node

(* C23: a dict literal that repeats a key parses without an error; the     *)
(* Dict node and the mapping evaluated from it hold the key exactly once,  *)
(* with the value of the last pair that has the key.                       *)
C23_DuplicateKeyLastWins ==
    /\ input.family = "duplicate_key" =>
          /\ raised = NoneValue
          /\ pc \in {"evaluate_node", "done"} =>
                /\ Len(statements) = 1
                /\ statements[1].node = "DictNode"
                /\ EachKeyOnce(statements[1].pairs)
                /\ Keys(statements[1].pairs) = input.keys
                /\ \A i \in 1..Len(input.keys) :
                       statements[1].pairs[i].value = ValueNode(input.last[i])
          /\ Done =>
                /\ returned = input.value
                /\ EachKeyOnce(returned.v)
    /\ \A i \in 1..Len(statements) :
          statements[i].node = "DictNode" => EachKeyOnce(statements[i].pairs)

C23_Witness ==
    /\ input.family = "duplicate_key" /\ Done
    /\ input.text = "{a = 1; b = 2; b = 3; a = 2}"
    /\ raised = NoneValue
    /\ Keys(statements[1].pairs) = <<"a", "b">>
    /\ returned = Dict(<<Pair("a", Two), Pair("b", Three)>>)

(* C24: the key synthesized for a bare top-level value is unique within a  *)
(* run: whatever names the statements declare or redeclare, no entry of a  *)
(* bare value overwrites or is overwritten by the entry of another         *)
(* statement, so the output holds one entry for each bare statement and    *)
(* one for each distinct declared name.                                    *)
C24_UnnamedKeysUnique ==
    (input.family = "unnamed_key" /\ Done) =>
        /\ raised = NoneValue
        /\ EachKeyOnce(returned.yaml)
        /\ Len(returned.yaml) = input.bare + input.declared

====
